---- MODULE Spec2Model ----
(***************************************************************************)
(* Slab allocator of rust_no_std: the size classifier (config.rs), the     *)
(* fixed-block arena with its intrusive free list (arena.rs) and the       *)
(* dispatcher over eight arena slots (memory.rs).                          *)
(*                                                                         *)
(* Memory is a flat map from the address of a block's first word (the      *)
(* FreeNode.next field) to the pointer stored there.  It is kept in three  *)
(* parts: the words initialize wrote (HeapImage, a function of the heap    *)
(* pair), the words deallocate wrote since (mem), and the words of blocks  *)
(* handed to callers (lost).  A word that the allocator never wrote, or    *)
(* that belongs to a block a caller owns, has no known content: reading it *)
(* yields an arbitrary value.                                              *)
(***************************************************************************)
EXTENDS Integers, Sequences, FiniteSets, Bags, TLC

\* ---------------------------------------------------------------- bounds
\* Largest number of blocks callers hold at the same time.
MaxLive == 3
\* Largest cluster number of the FAT tables walked in SpecFat.
MaxCluster == 3
\* Largest request size handed to the classifier in SpecClassify.
MaxSize == 1100
\* Free lists are followed for 2^WalkLog links, more than the arenas have
\* blocks.
WalkLog == 9

\* ---------------------------------------------------------------- inputs
\* (heap_start, heap_size) pairs given to initialize: 1024-aligned bases,
\* lengths >= 8 * 1024, one of them not a multiple of 8 * 1024.
HeapBases == {4096, 1048576}
HeapLengths == {8192, 8200, 16384}
\* Layouts of the requests: a size of every kind the dispatcher tells
\* apart (no class, Small as in test_allocation, twice Large, Huge, over
\* 1024) and one alignment above the class width.
Layouts ==
    {[size |-> 0, align |-> 1], [size |-> 16, align |-> 8],
     [size |-> 16, align |-> 2048], [size |-> 33, align |-> 8],
     [size |-> 64, align |-> 8], [size |-> 65, align |-> 8],
     [size |-> 1025, align |-> 8]}

\* ------------------------------------------------------------- config.rs
NULL == 0
NoClass == 0
Tiny == 8
Small == 16
Medium == 32
Large == 64
Huge == 128
Giant == 256
Colossal == 512
Mammoth == 1024
NumArenas == 8

Slots == 0..(NumArenas - 1)

\* categorize with the Tiny/Small boundary one too high.
categorizeShifted(size) ==
    CASE size >= 1 /\ size <= 9 -> 8
      [] size >= 10 /\ size <= 16 -> 16
      [] size >= 17 /\ size <= 32 -> 32
      [] size >= 33 /\ size <= 64 -> 64
      [] size >= 65 /\ size <= 128 -> 128
      [] size >= 129 /\ size <= 256 -> 256
      [] size >= 257 /\ size <= 512 -> 512
      [] size >= 513 /\ size <= 1024 -> 1024
      [] OTHER -> 0

\* categorize without the Medium arm: 17..=32 fall into Large.
categorizeNoMedium(size) ==
    CASE size >= 1 /\ size <= 8 -> 8
      [] size >= 9 /\ size <= 16 -> 16
      [] size >= 17 /\ size <= 64 -> 64
      [] size >= 65 /\ size <= 128 -> 128
      [] size >= 129 /\ size <= 256 -> 256
      [] size >= 257 /\ size <= 512 -> 512
      [] size >= 513 /\ size <= 1024 -> 1024
      [] OTHER -> 0

RECURSIVE Pow2(_)
Pow2(n) == IF n = 0 THEN 1 ELSE 2 * Pow2(n - 1)

\* BlockSize::categorize: the match on the size ranges, NoClass for `_`.
categorize(size) ==
    CASE size >= 1 /\ size <= 8 -> Tiny
      [] size >= 9 /\ size <= 16 -> Small
      [] size >= 17 /\ size <= 32 -> Medium
      [] size >= 33 /\ size <= 64 -> Large
      [] size >= 65 /\ size <= 128 -> Huge
      [] size >= 129 /\ size <= 256 -> Giant
      [] size >= 257 /\ size <= 512 -> Colossal
      [] size >= 513 /\ size <= 1024 -> Mammoth
      [] OTHER -> NoClass

\* memory.rs: `let index = block_size as usize / 8 - 1;`
SlotIndex(block_size) == (block_size \div 8) - 1

\* SlotWidth with the shift one too small: `1 << (2 + i)`.
SlotWidthShift2(i) == Pow2(2 + i)

\* memory.rs initialize: `let block_size = (1 << (3 + i)) as usize;`
SlotWidth(i) == Pow2(3 + i)

VARIABLES
    initialized,  \* ARENAS has been written by initialize
    heap,         \* the (heap_start, heap_size) pair given to initialize
    arenas,       \* ARENAS: slot -> Option<Arena>
    mem,          \* words written by deallocate: address -> FreeNode.next
    lost,         \* addresses whose word was handed to a caller with
                  \* its block and not written by the allocator since
    held,         \* bag of [ptr, size]: blocks owned by callers, each
                  \* with the layout.size it was requested with
    fault,        \* the panic that stopped the program, if any
    last,         \* the latest allocate or deallocate call of the single
                  \* mutator that returned: its layout and the pointer
                  \* returned or given back
    probe,        \* SpecClassify: a size and the class categorize gave it
    ctx,          \* SpecConcurrent: per execution context, where its
                  \* allocate call stands, the values it has read and
                  \* the pointer returned to it
    fat           \* SpecFat: the FAT value (cluster-chain iterator), the
                  \* table on its device and what next() returned last

vars ==
    <<initialized, heap, arenas, mem, lost, held, fault, last, probe, ctx,
      fat>>

None == [some |-> FALSE]
NoFault == [panicked |-> FALSE, size |-> 0, index |-> 0]
NoProbe == [size |-> 0, class |-> NoClass, done |-> FALSE]
NoCall == [op |-> "none", size |-> 0, align |-> 0, ptr |-> 0]
NoFat == [made |-> FALSE]

\* --------------------------------------------------------------- arena.rs
\* Arena::initialize_free_list: the words written by the loop, one per
\* iteration k in 0..capacity/block_size, each holding `next` or null.
initialize_free_list(start, capacity, block_size) ==
    LET n == capacity \div block_size
        cells == {start + k * block_size : k \in 0..(n - 1)}
    IN [c \in cells |->
           IF c + block_size < start + capacity THEN c + block_size ELSE NULL]

\* Arena::new: the struct, with free_list set to start by
\* initialize_free_list (whatever the number of blocks).
ArenaNew(start, capacity, block_size) ==
    [some |-> TRUE, start |-> start, capacity |-> capacity,
     block_size |-> block_size, free_list |-> start]

\* What a read of a word outside `mem` may yield: null, or the address of
\* a block (the arena's first).
Garbage(a) == {NULL, a.start}

\* ArenaDeallocate without `self.free_list = node`.
ArenaDeallocateNoPush(a, ptr) == a

\* Map m without the word at address p.
Erase(m, p) == [c \in (DOMAIN m) \ {p} |-> m[c]]

\* Map m with the word at address p set to v.
Store(m, p, v) == [c \in (DOMAIN m) \cup {p} |-> IF c = p THEN v ELSE m[c]]

\* Arena::deallocate: (*node).next = free_list; free_list = node.
ArenaDeallocate(a, ptr) == [a EXCEPT !.free_list = ptr]

\* ArenaAllocate without `self.free_list = (*node).next`.
ArenaAllocateNoPop(a, next) == a

\* Arena::allocate, non-null case: free_list = (*node).next.
ArenaAllocate(a, next) == [a EXCEPT !.free_list = next]

\* -------------------------------------------------------------- memory.rs
\* Start of arena i: `current` after i rounds of
\* `current = current.add(block_count * block_size)`.
RECURSIVE ArenaStart(_, _, _)
ArenaStart(heap_start, block_count, i) ==
    IF i = 0 THEN heap_start
    ELSE ArenaStart(heap_start, block_count, i - 1)
             + block_count * SlotWidth(i - 1)

RECURSIVE MergeLists(_, _, _)
MergeLists(heap_start, block_count, i) ==
    IF i = NumArenas THEN << >>
    ELSE initialize_free_list(ArenaStart(heap_start, block_count, i),
                              block_count, SlotWidth(i))
         @@ MergeLists(heap_start, block_count, i + 1)

\* The words SlabMemory::initialize wrote: the free lists of the eight
\* arenas.
HeapImage ==
    IF initialized
    THEN MergeLists(heap.start, heap.size \div NumArenas, 0)
    ELSE << >>

\* The words with a known content: those of HeapImage and of mem, mem
\* over HeapImage, without the words handed to callers.
Memory ==
    LET image == HeapImage IN
    [p \in ((DOMAIN image) \cup (DOMAIN mem)) \ lost |->
        IF p \in DOMAIN mem THEN mem[p] ELSE image[p]]

\* `(*node).next`
ReadNext(a, node) ==
    IF node \in lost THEN Garbage(a)
    ELSE IF node \in DOMAIN mem THEN {mem[node]}
    ELSE IF node \in DOMAIN HeapImage THEN {HeapImage[node]}
    ELSE Garbage(a)

\* Program start with ARENAS in zero-filled memory (the static carries no
\* initializer data): every slot reads as None.  InitUninit below is the
\* start with any content.
Init ==
    /\ initialized = FALSE
    /\ heap = [start |-> 0, size |-> 0]
    /\ arenas = [i \in Slots |-> None]
    /\ mem = << >>
    /\ lost = {}
    /\ held = EmptyBag
    /\ fault = NoFault
    /\ last = NoCall
    /\ probe = NoProbe
    /\ ctx = << >>
    /\ fat = NoFat

\* SlabMemory::initialize(heap_start, heap_size), called once.
Initialize(heap_start, heap_size) ==
    LET block_count == heap_size \div NumArenas IN
    /\ ~initialized
    /\ ~fault.panicked
    /\ initialized' = TRUE
    /\ heap' = [start |-> heap_start, size |-> heap_size]
    /\ arenas' = [i \in Slots |->
                    ArenaNew(ArenaStart(heap_start, block_count, i),
                             block_count, SlotWidth(i))]
    \* the words written by initialize_free_list are HeapImage
    /\ UNCHANGED <<mem, lost, held, fault, last, probe, ctx, fat>>

\* Dispatch with a size that has no class sent to slot 0 instead of being
\* refused.
DispatchDefaultTiny(size) ==
    LET block_size == categorize(size) IN
    IF block_size = NoClass THEN [kind |-> "slot", index |-> 0]
    ELSE IF SlotIndex(block_size) \notin Slots
         THEN [kind |-> "panic", index |-> SlotIndex(block_size)]
         ELSE [kind |-> "slot", index |-> SlotIndex(block_size)]

\* The three ways SlabMemory::allocate and deallocate leave the dispatch:
\* categorize gave None, arenas[index] is out of bounds (panic), or the
\* slot is reached.
Dispatch(size) ==
    LET block_size == categorize(size) IN
    IF block_size = NoClass THEN [kind |-> "none", index |-> 0]
    ELSE IF SlotIndex(block_size) \notin Slots
         THEN [kind |-> "panic", index |-> SlotIndex(block_size)]
         ELSE [kind |-> "slot", index |-> SlotIndex(block_size)]

\* The pointer SlabMemory::allocate(layout) returns in the current state
\* when it returns: null for no class, an empty slot or an empty free
\* list, else the head of the slot's free list.
AllocateResult(size) ==
    LET d == Dispatch(size) IN
    IF d.kind = "slot" /\ arenas[d.index].some
    THEN arenas[d.index].free_list
    ELSE NULL

\* SlabMemory::allocate(layout): what the call does to the allocator.
\* Before initialize every slot reads as None.
SlabMemoryAllocate(size, align) ==
    LET d == Dispatch(size)
        node == AllocateResult(size)
    IN
    /\ ~fault.panicked
    /\ UNCHANGED <<initialized, heap, probe, ctx>>
    /\ IF d.kind = "panic"
       THEN /\ fault' = [panicked |-> TRUE, size |-> size, index |-> d.index]
            /\ UNCHANGED <<arenas, mem, lost, held, last>>
       ELSE IF node = NULL
       THEN /\ last' = [op |-> "allocate", size |-> size, align |-> align,
                        ptr |-> NULL]
            /\ UNCHANGED <<arenas, mem, lost, held, fault>>
       ELSE /\ BagCardinality(held) < MaxLive
            /\ last' = [op |-> "allocate", size |-> size, align |-> align,
                        ptr |-> node]
            /\ \E next \in ReadNext(arenas[d.index], node) :
                 arenas' = [arenas EXCEPT
                    ![d.index] = ArenaAllocate(arenas[d.index], next)]
            \* the block now belongs to the caller, who may overwrite it
            /\ mem' = Erase(mem, node)
            /\ lost' = lost \cup {node}
            /\ held' = held (+) SetToBag({[ptr |-> node, size |-> size]})
            /\ UNCHANGED fault

\* SlabMemory::allocate(layout) called by the program.
Allocate(size, align) == SlabMemoryAllocate(size, align) /\ UNCHANGED fat

\* SlabMemory::deallocate(ptr, layout) on a block a caller holds, with the
\* layout it was allocated with (only layout.size is read).
Deallocate(h) ==
    LET d == Dispatch(h.size) IN
    /\ ~fault.panicked
    /\ BagIn(h, held)
    /\ UNCHANGED <<initialized, heap, probe, ctx, fat>>
    /\ held' = held (-) SetToBag({h})
    /\ last' = IF d.kind = "panic" THEN last
               ELSE [op |-> "deallocate", size |-> h.size, align |-> 0,
                     ptr |-> h.ptr]
    /\ IF d.kind = "panic"
       THEN /\ fault' = [panicked |-> TRUE, size |-> h.size,
                         index |-> d.index]
            /\ UNCHANGED <<arenas, mem, lost>>
       ELSE IF d.kind = "none" \/ ~arenas[d.index].some
       THEN UNCHANGED <<arenas, mem, lost, fault>>
       ELSE /\ mem' = Store(mem, h.ptr, arenas[d.index].free_list)
            /\ lost' = lost \ {h.ptr}
            /\ arenas' = [arenas EXCEPT
                  ![d.index] = ArenaDeallocate(arenas[d.index], h.ptr)]
            /\ UNCHANGED fault

\* A caller gives back one of the blocks it holds.
DeallocateHeld == \E h \in BagToSet(held) : Deallocate(h)

Next ==
    \/ \E b \in HeapBases, l \in HeapLengths : Initialize(b, l)
    \/ \E l \in Layouts : Allocate(l.size, l.align)
    \/ DeallocateHeld

Spec == Init /\ [][Next]_vars

\* ------------------------------------------------- ARENAS before initialize
\* `static mut ARENAS: MaybeUninit<..> = MaybeUninit::uninit()` read through
\* assume_init_mut() before any write: the eight slots hold whatever the
\* memory holds.  Three fill patterns stand for it: every slot reads as
\* None, as an arena with a null free_list, or as an arena whose pointers
\* are the fill value.
Poison == 43690

UninitSlot ==
    {None,
     [some |-> TRUE, start |-> NULL, capacity |-> 0, block_size |-> 0,
      free_list |-> NULL],
     [some |-> TRUE, start |-> Poison, capacity |-> Poison,
      block_size |-> Poison, free_list |-> Poison]}

UninitArenas == {[i \in Slots |-> u] : u \in UninitSlot}

InitUninit ==
    /\ initialized = FALSE
    /\ heap = [start |-> 0, size |-> 0]
    /\ arenas \in UninitArenas
    /\ mem = << >>
    /\ lost = {}
    /\ held = EmptyBag
    /\ fault = NoFault
    /\ last = NoCall
    /\ probe = NoProbe
    /\ ctx = << >>
    /\ fat = NoFat

\* allocate and deallocate called before initialize.
AllocateEarly(size, align) == ~initialized /\ Allocate(size, align)

DeallocateEarly == ~initialized /\ DeallocateHeld

\* The calls made up to and including initialize.
NextUninit ==
    \/ \E b \in HeapBases, l \in HeapLengths : Initialize(b, l)
    \/ \E l \in Layouts : AllocateEarly(l.size, l.align)
    \/ DeallocateEarly

SpecUninit == InitUninit /\ [][NextUninit]_vars

\* ------------------------------------------------- two execution contexts
\* GLOBAL_ALLOCATOR is a shared static and ARENAS a static mut without a
\* lock: two contexts may be inside SlabMemory::allocate at once.
\* Arena::allocate is split where another context can run in between:
\* the reads (free_list, then (*node).next) and the write of free_list.
Contexts == {1, 2}

Idle == [pc |-> "idle", size |-> 0, index |-> 0, node |-> NULL,
         next |-> NULL, ptr |-> NULL]

Returned(size, ptr) ==
    [pc |-> "done", size |-> size, index |-> 0, node |-> NULL,
     next |-> NULL, ptr |-> ptr]

InitConcurrent ==
    /\ initialized = FALSE
    /\ heap = [start |-> 0, size |-> 0]
    /\ arenas = [i \in Slots |-> None]
    /\ mem = << >>
    /\ lost = {}
    /\ held = EmptyBag
    /\ fault = NoFault
    /\ last = NoCall
    /\ probe = NoProbe
    /\ ctx = [c \in Contexts |-> Idle]
    /\ fat = NoFat

\* Context c enters SlabMemory::allocate(layout): dispatch, the null
\* check, `let node = self.free_list` and the read of (*node).next.
LoadHead(c, size, align) ==
    LET d == Dispatch(size)
        node == AllocateResult(size)
    IN
    /\ ~fault.panicked
    /\ ctx[c].pc = "idle"
    /\ UNCHANGED <<initialized, heap, arenas, mem, lost, held, last, probe,
                   fat>>
    /\ IF d.kind = "panic"
       THEN /\ fault' = [panicked |-> TRUE, size |-> size, index |-> d.index]
            /\ UNCHANGED ctx
       ELSE IF node = NULL
       THEN /\ ctx' = [ctx EXCEPT ![c] = Returned(size, NULL)]
            /\ UNCHANGED fault
       ELSE /\ BagCardinality(held) < MaxLive
            /\ \E next \in ReadNext(arenas[d.index], node) :
                 ctx' = [ctx EXCEPT ![c] =
                    [pc |-> "loaded", size |-> size, index |-> d.index,
                     node |-> node, next |-> next, ptr |-> NULL]]
            /\ UNCHANGED fault

\* Context c finishes Arena::allocate: `self.free_list = <next read
\* before>` and `node as *mut u8` is returned.
StoreHead(c) ==
    LET x == ctx[c] IN
    /\ ~fault.panicked
    /\ x.pc = "loaded"
    /\ arenas' = [arenas EXCEPT
          ![x.index] = ArenaAllocate(arenas[x.index], x.next)]
    /\ mem' = Erase(mem, x.node)
    /\ lost' = lost \cup {x.node}
    /\ held' = held (+) SetToBag({[ptr |-> x.node, size |-> x.size]})
    /\ ctx' = [ctx EXCEPT ![c] = Returned(x.size, x.node)]
    /\ UNCHANGED <<initialized, heap, fault, last, probe, fat>>

\* Context c takes the returned pointer and is ready for its next call.
Resume(c) ==
    /\ ctx[c].pc = "done"
    /\ ctx' = [ctx EXCEPT ![c] = Idle]
    /\ UNCHANGED <<initialized, heap, arenas, mem, lost, held, fault, last,
                   probe, fat>>

NextConcurrent ==
    \/ \E b \in HeapBases, l \in HeapLengths : Initialize(b, l)
    \/ \E c \in Contexts, l \in Layouts : LoadHead(c, l.size, l.align)
    \/ \E c \in Contexts : StoreHead(c)
    \/ \E c \in Contexts : Resume(c)

SpecConcurrent == InitConcurrent /\ [][NextConcurrent]_vars

\* ----------------------------------------------------------- one arena
\* Arena::new and Arena::allocate on an arena of their own (kept in slot
\* 0), for the (start, capacity, block_size) triples below: capacities
\* that are multiples of block_size, zero included, and some that are not.
ArenaStarts == {4096, 8192}
ArenaCapacities == {0, 8, 16, 24, 32, 40, 48, 64}
ArenaBlockSizes == {8, 16}

\* Arena::new(start, capacity, block_size): the struct and the words
\* initialize_free_list writes.
NewArena(start, capacity, block_size) ==
    /\ ~initialized
    /\ ~arenas[0].some
    /\ arenas' = [arenas EXCEPT ![0] = ArenaNew(start, capacity, block_size)]
    /\ mem' = initialize_free_list(start, capacity, block_size)
    /\ UNCHANGED <<initialized, heap, lost, held, fault, last, probe, ctx,
                   fat>>

\* Arena::allocate on that arena.
TakeBlock ==
    LET a == arenas[0]
        node == a.free_list
    IN
    /\ ~initialized
    /\ a.some
    /\ UNCHANGED <<initialized, heap, fault, probe, ctx, fat>>
    /\ IF node = NULL
       THEN /\ last' = [op |-> "allocate", size |-> a.block_size,
                        align |-> 0, ptr |-> NULL]
            /\ UNCHANGED <<arenas, mem, lost, held>>
       ELSE /\ BagCardinality(held) < MaxLive
            /\ \E next \in ReadNext(a, node) :
                 arenas' = [arenas EXCEPT ![0] = ArenaAllocate(a, next)]
            /\ mem' = Erase(mem, node)
            /\ lost' = lost \cup {node}
            /\ held' = held (+)
                  SetToBag({[ptr |-> node, size |-> a.block_size]})
            /\ last' = [op |-> "allocate", size |-> a.block_size,
                        align |-> 0, ptr |-> node]

NextArena ==
    \/ \E s \in ArenaStarts, c \in ArenaCapacities, b \in ArenaBlockSizes :
          NewArena(s, c, b)
    \/ TakeBlock

SpecArena == Init /\ [][NextArena]_vars

\* ----------------------------------------------------------------- fat.rs
\* The cluster-chain iterator FAT<T>.  Its device holds the table as
\* little-endian 32-bit entries from byte fat_offset on and zero bytes
\* elsewhere.  BUFFER_SIZE, read_le_u32 and the BlockDevice behind T are
\* defined outside fat.rs: BUFFER_SIZE is taken as 8 (two entries, so
\* that a table spans blocks), read_le_u32 as the little-endian decoding
\* its name states, and a device read either fills the buffer with the
\* BUFFER_SIZE bytes at the offset or fails and leaves it as it was (the
\* Result is dropped by `.ok()`).
BUFFER_SIZE == 8
EndOfChain == 268435455

Clusters == 0..MaxCluster
EntryValues == Clusters \cup {EndOfChain}
Tables == [Clusters -> EntryValues]
FatOffsets == {16}

\* u32::to_le_bytes
to_le_bytes(v) ==
    <<v % 256, (v \div 256) % 256, (v \div 65536) % 256,
      (v \div 16777216) % 256>>

read_le_u32(b) == b[1] + 256 * b[2] + 65536 * b[3] + 16777216 * b[4]

\* The byte at position pos of the device.
DeviceByte(table, fat_offset, pos) ==
    IF pos >= fat_offset /\ pos < fat_offset + 4 * (MaxCluster + 1)
    THEN to_le_bytes(table[(pos - fat_offset) \div 4])
            [((pos - fat_offset) % 4) + 1]
    ELSE 0

\* device.read(buffer, offset, 1), successful: the buffer afterwards.
DeviceRead(table, fat_offset, offset) ==
    [k \in 1..BUFFER_SIZE |-> DeviceByte(table, fat_offset, offset + k - 1)]

\* The block FAT::new got from the allocator is not written before the
\* first read: its bytes are whatever the memory holds, here zeros or
\* the bytes of end-of-chain entries.
UninitBuffers ==
    {[k \in 1..BUFFER_SIZE |-> to_le_bytes(e)[((k - 1) % 4) + 1]] :
        e \in {0, EndOfChain}}

\* `self.current_cluster_usize() * 4`
EntryOffset(cluster) == cluster * 4

\* next_cluster after the read: None for 0x0FFFFFFF, else Some(value).
NextOf(value) ==
    IF value = EndOfChain THEN [some |-> FALSE, v |-> 0]
    ELSE [some |-> TRUE, v |-> value]

\* FAT::new(cluster, device, fat_offset): the buffer is allocated with
\* Layout::new::<[u8; BUFFER_SIZE]>(); None is returned when the pointer
\* is null.
FatNew(cluster, table, fat_offset) ==
    /\ ~fat.made
    /\ SlabMemoryAllocate(BUFFER_SIZE, 1)
    /\ IF fault'.panicked \/ last'.ptr = NULL
       THEN fat' = fat
       ELSE \E bytes \in UninitBuffers :
              fat' = [made |-> TRUE, table |-> table,
                      fat_offset |-> fat_offset,
                      start_cluster |-> cluster,
                      previous_cluster |-> 0,
                      current_cluster |-> 0,
                      next_cluster |-> [some |-> FALSE, v |-> 0],
                      buffer |-> bytes, read_ok |-> FALSE, ret |-> "-"]

\* <FAT as Iterator>::next
FatNext ==
    /\ fat.made
    /\ ~fault.panicked
    /\ UNCHANGED <<initialized, heap, arenas, mem, lost, held, fault, last,
                   probe, ctx>>
    /\ IF fat.current_cluster # 0 /\ ~fat.next_cluster.some
       THEN fat' = [fat EXCEPT !.ret = "none"]
       ELSE LET current == IF fat.current_cluster = 0
                           THEN fat.start_cluster
                           ELSE fat.next_cluster.v
                previous == IF fat.current_cluster = 0
                            THEN fat.previous_cluster
                            ELSE fat.current_cluster
                offset == EntryOffset(current)
                block_offset == offset \div BUFFER_SIZE
                offset_left == offset % BUFFER_SIZE
            IN \E ok \in BOOLEAN :
                 LET buffer == IF ok
                               THEN DeviceRead(fat.table, fat.fat_offset,
                                      fat.fat_offset
                                        + block_offset * BUFFER_SIZE)
                               ELSE fat.buffer
                     value == read_le_u32(
                                 [k \in 1..4 |-> buffer[offset_left + k]])
                 IN fat' = [fat EXCEPT
                              !.previous_cluster = previous,
                              !.current_cluster = current,
                              !.next_cluster = NextOf(value),
                              !.buffer = buffer,
                              !.read_ok = ok,
                              !.ret = "some"]

NextFat ==
    \/ Initialize(4096, 8192)
    \/ \E c \in Clusters, t \in Tables, o \in FatOffsets : FatNew(c, t, o)
    \/ FatNext

SpecFat == Init /\ [][NextFat]_vars

\* ------------------------------------------------------------ classifier
\* BlockSize::categorize applied to one size after the other.
Classify(size) ==
    /\ probe' = [size |-> size, class |-> categorize(size), done |-> TRUE]
    /\ UNCHANGED <<initialized, heap, arenas, mem, lost, held, fault, last,
                   ctx, fat>>

NextClassify == \E size \in 0..MaxSize : Classify(size)

SpecClassify == Init /\ [][NextClassify]_vars

\* ------------------------------------------------- what the claims speak of
Widths == {SlotWidth(i) : i \in Slots}

\* The slot the data model gives a class: Tiny..Mammoth are slots 0..7.
ClassSlot(width) == CHOOSE i \in Slots : SlotWidth(i) = width

\* Per-class block count and offset of section 4.3: N_i = (length / 8) /
\* width_i, offset_i = sum over j < i of N_j * width_j.
BlockCount(length, i) == (length \div NumArenas) \div SlotWidth(i)

RECURSIVE SpecOffset(_, _)
SpecOffset(length, i) ==
    IF i = 0 THEN 0
    ELSE SpecOffset(length, i - 1)
           + BlockCount(length, i - 1) * SlotWidth(i - 1)

\* The address the next word of p leads to in m; null after null and
\* after a word that is not in m.
Succ(m, p) == IF p = NULL \/ p \notin DOMAIN m THEN NULL ELSE m[p]

\* The address 2^k links after p.
RECURSIVE Jump(_, _, _)
Jump(m, p, k) ==
    IF p = NULL THEN NULL
    ELSE IF k = 0 THEN Succ(m, p)
    ELSE Jump(m, Jump(m, p, k - 1), k - 1)

\* The addresses among the first 2^k of the list that starts at p.
RECURSIVE Reach(_, _, _)
Reach(m, p, k) ==
    IF p = NULL THEN {}
    ELSE IF k = 0 THEN {p}
    ELSE Reach(m, p, k - 1) \cup Reach(m, Jump(m, p, k - 1), k - 1)

\* Addresses reached from p through the next words of m, up to null or to
\* a word that is not in m.
Walk(m, p) == Reach(m, p, WalkLog)

\* TRUE when the list from p loops: it has not ended after 2^WalkLog
\* links, more than there are words.
Cyclic(m, p) == Jump(m, p, WalkLog) # NULL

\* The addresses on the free list of arena i, m being Memory.
FreeSet(m, i) == Walk(m, arenas[i].free_list)

InArena(a, p) == p >= a.start /\ p < a.start + a.capacity

\* The blocks of an arena: N = capacity / block_size of them.
Blocks(a) ==
    {a.start + k * a.block_size : k \in 0..((a.capacity \div a.block_size) - 1)}

HeldSet == BagToSet(held)

\* Pointers callers hold that came from slot i.
LiveIn(i) == {h.ptr : h \in {x \in HeldSet : Dispatch(x.size).index = i}}

\* Number of blocks callers hold of the class of the given width.
RECURSIVE BagSum(_)
BagSum(S) ==
    IF S = {} THEN 0
    ELSE LET h == CHOOSE x \in S : TRUE
         IN CopiesIn(h, held) + BagSum(S \ {h})

HeldOfClass(width) == BagSum({h \in HeldSet : categorize(h.size) = width})

\* C1: every pointer allocate returned lies in the arena of the slot of the
\* class of its size (Tiny..Mammoth = slots 0..7) and is aligned to the
\* class width.
PointerInClassRegion ==
    \A h \in HeldSet :
        LET width == categorize(h.size) IN
        /\ InArena(arenas[ClassSlot(width)], h.ptr)
        /\ h.ptr % width = 0

\* C2: after initialize, allocate and deallocate never fault: for a size
\* with a class the slot index is in 0..7 and the call returns.
DispatchTotal ==
    (initialized /\ categorize(fault.size) # NoClass) =>
        (~fault.panicked /\ fault.index \in Slots)

\* C3: after initialize, arena i starts at base + offset_i, the sum of the
\* N_j * width_j of the arenas before it.
ArenaStartsAtOffset ==
    initialized =>
        \A i \in Slots :
            arenas[i].start = heap.start + SpecOffset(heap.size, i)

\* C4: after initialize with a 1024-aligned base and length >= 8192 all
\* eight arenas, and every block held or on a free list, lie inside
\* [base, base + length).
ArenasInsideRegion ==
    (initialized /\ heap.start % 1024 = 0 /\ heap.size >= 8192) =>
        /\ \A i \in Slots :
              /\ arenas[i].start >= heap.start
              /\ arenas[i].start + arenas[i].capacity
                    <= heap.start + heap.size
        /\ \A h \in HeldSet :
              /\ h.ptr >= heap.start
              /\ h.ptr + categorize(h.size) <= heap.start + heap.size

\* C5: after initialize, allocate of a class returns null exactly when N_i
\* blocks of that class are held: N_i allocations succeed, the next fails,
\* and a deallocate enables one more.
ExactlyNiSucceed ==
    initialized =>
        \A l \in Layouts :
            Dispatch(l.size).kind = "slot" =>
                ((AllocateResult(l.size) = NULL)
                   <=> (HeldOfClass(categorize(l.size))
                          = BlockCount(heap.size,
                                       ClassSlot(categorize(l.size)))))

\* C6: every address reachable from an arena's free_list is inside the
\* arena and block-aligned relative to it, and the list has no cycle.
FreeListWellFormed ==
    initialized =>
        LET m == Memory IN
        \A i \in Slots :
            /\ ~Cyclic(m, arenas[i].free_list)
            /\ \A p \in FreeSet(m, i) :
                  /\ InArena(arenas[i], p)
                  /\ (p - arenas[i].start) % arenas[i].block_size = 0

\* C7: the free blocks and the live blocks of an arena are disjoint and
\* together are its N blocks, each live block held once.
FreeLivePartition ==
    initialized =>
        LET m == Memory IN
        \A i \in Slots :
            /\ FreeSet(m, i) \cap LiveIn(i) = {}
            /\ FreeSet(m, i) \cup LiveIn(i) = Blocks(arenas[i])
            /\ \A h \in HeldSet : CopiesIn(h, held) = 1

\* C8: LIFO reuse: right after deallocate(p, L) an allocate of any layout of
\* the same class returns p.
LifoReuse ==
    [][\A h \in HeldSet :
          Deallocate(h) =>
              \A l \in Layouts :
                  categorize(l.size) = categorize(h.size) =>
                      AllocateResult(l.size)' = h.ptr]_vars

\* C8 witness: blocks 0 and 1 of the Small arena were allocated and then
\* deallocated in that order, so block 1 is the head and links to block 0.
LifoReuseWitness ==
    /\ initialized
    /\ held = EmptyBag
    /\ arenas[1].free_list = arenas[1].start + 16
    /\ (arenas[1].start + 16) \in DOMAIN mem
    /\ mem[arenas[1].start + 16] = arenas[1].start
    /\ lost = {}

\* The free set of arena i right after initialize, image being HeapImage.
InitialFreeSet(image, i) == Walk(image, arenas[i].start)

\* C9: when every allocate has been matched by a deallocate of the same
\* layout, the free blocks of every arena are those it had before.
FreeSetRestored ==
    (initialized /\ held = EmptyBag) =>
        LET m == Memory
            image == HeapImage
        IN \A i \in Slots :
               {p \in FreeSet(m, i) : InArena(arenas[i], p)}
                  = InitialFreeSet(image, i)

\* The smallest class width that is >= size (sizes 1..1024).
SmallestClass(size) ==
    CHOOSE w \in Widths :
        /\ w >= size
        /\ \A v \in Widths : v >= size => w <= v

\* C10: categorize gives the smallest class whose width is >= size for
\* sizes 1..1024 (8 -> Tiny, 9 -> Small, 1024 -> Mammoth) and no class
\* exactly for size 0 and sizes above 1024.
ClassifySmallestFit ==
    probe.done =>
        /\ (probe.size >= 1 /\ probe.size <= 1024)
              => probe.class = SmallestClass(probe.size)
        /\ (probe.class = NoClass)
              <=> (probe.size = 0 \/ probe.size > 1024)
        /\ probe.size = 8 => probe.class = Tiny
        /\ probe.size = 9 => probe.class = Small
        /\ probe.size = 1024 => probe.class = Mammoth

\* C10 witness: the boundary size 9 was classified as Small.
ClassifyWitness == probe.done /\ probe.size = 9 /\ probe.class = Small

\* C11 as stated: a size that gets a class of width w is at most w and,
\* when above 1, above w / 2.
ClassifyTightFit ==
    (probe.done /\ probe.class # NoClass) =>
        /\ probe.size <= probe.class
        /\ probe.size > 1 => probe.size > probe.class \div 2

\* C11 amended: a size that gets a class of width w is at most w and,
\* when above 4 (half the width of Tiny, the smallest class), above w / 2.
ClassifyTightFitAbove4 ==
    (probe.done /\ probe.class # NoClass) =>
        /\ probe.size <= probe.class
        /\ probe.size > 4 => probe.size > probe.class \div 2

\* C11 witness: size 17, one above the width of Small, was classified as
\* Medium, of which it is more than half.
ClassifyTightWitness ==
    probe.done /\ probe.size = 17 /\ probe.class = Medium

\* C12: an allocate whose layout.align is above the width of the class of
\* layout.size returns null and takes no block from any arena.
OverAlignedRefused ==
    [][\A l \in Layouts :
          (/\ categorize(l.size) # NoClass
           /\ l.align > categorize(l.size)
           /\ Allocate(l.size, l.align)) =>
              (/\ last'.ptr = NULL
               /\ arenas' = arenas
               /\ held' = held)]_vars

\* C13: an allocate with layout.size 0 or above 1024 returns null and
\* leaves the free list of every arena as it was.
NoClassRefused ==
    [][\A l \in Layouts :
          ((l.size = 0 \/ l.size > 1024) /\ Allocate(l.size, l.align)) =>
              (/\ last'.ptr = NULL
               /\ \A i \in Slots : arenas'[i] = arenas[i]
               /\ held' = held)]_vars

\* C13 witness: with free blocks in every arena, allocate of size 1025
\* has returned null.
NoClassRefusedWitness ==
    /\ initialized
    /\ last.op = "allocate" /\ last.size = 1025 /\ last.ptr = NULL
    /\ \A i \in Slots : arenas[i].free_list # NULL

\* C14: no spill between classes.  An allocate or a deallocate of class i
\* (slot i of Tiny..Mammoth = 0..7) after initialize changes no arena but
\* arena i; the allocate returns null when arena i has no free block and
\* a block of arena i when it has one.
NoSpill ==
    [][/\ \A l \in Layouts :
            (/\ initialized
             /\ categorize(l.size) # NoClass
             /\ Allocate(l.size, l.align)) =>
                LET i == ClassSlot(categorize(l.size)) IN
                /\ ~fault'.panicked
                /\ \A j \in Slots \ {i} : arenas'[j] = arenas[j]
                /\ (~arenas[i].some \/ arenas[i].free_list = NULL) =>
                      last'.ptr = NULL
                /\ (arenas[i].some /\ arenas[i].free_list # NULL) =>
                      last'.ptr = arenas[i].free_list
       /\ \A h \in HeldSet :
            (categorize(h.size) # NoClass /\ Deallocate(h)) =>
                \A j \in Slots \ {ClassSlot(categorize(h.size))} :
                    arenas'[j] = arenas[j]]_vars

\* C15: after initialize, an allocate with layout.size in 1..=1024 and
\* layout.align at most the class width returns a non-null pointer, one
\* that no caller holds, as long as fewer than N_i blocks of the class
\* are held.
AllocateSucceeds ==
    [][\A l \in Layouts :
          (/\ initialized
           /\ l.size >= 1 /\ l.size <= 1024
           /\ l.align <= categorize(l.size)
           /\ HeldOfClass(categorize(l.size))
                 < BlockCount(heap.size, ClassSlot(categorize(l.size)))
           /\ Allocate(l.size, l.align)) =>
              (/\ ~fault'.panicked
               /\ last'.ptr # NULL
               /\ last'.ptr \notin {h.ptr : h \in HeldSet})]_vars

\* C16: before initialize has populated the slots, an allocate that reaches
\* a slot returns null and takes nothing, and a deallocate changes
\* neither the arenas nor the memory.
EmptySlotRefuses ==
    [][~initialized =>
          /\ \A l \in Layouts :
                (Dispatch(l.size).kind = "slot"
                    /\ Allocate(l.size, l.align)) =>
                   (/\ last'.ptr = NULL
                    /\ UNCHANGED <<arenas, mem, lost, held>>)
          /\ \A h \in HeldSet :
                Deallocate(h) => UNCHANGED <<arenas, mem>>]_vars

\* C17: without mutual exclusion the allocator is unsafe.  A context that
\* read the head of a free list completes its allocate with what it read,
\* whatever the other context did in between: when the other context has
\* returned that block meanwhile, the block is returned a second time and
\* free_list is set to the next word read before.
RaceReturnsSameBlock ==
    [][\A c \in Contexts, d \in Contexts :
          (/\ c # d
           /\ ctx[c].pc = "loaded"
           /\ ctx[d].pc = "done"
           /\ ctx[d].ptr = ctx[c].node
           /\ StoreHead(c)) =>
              (/\ ctx'[c].pc = "done"
               /\ ctx'[c].ptr = ctx'[d].ptr
               /\ ctx'[c].ptr # NULL
               /\ arenas'[ctx[c].index].free_list = ctx[c].next)]_vars

\* C17 witness: after initialize(_, 8192), whose free lists have no
\* unwritten word, the two contexts have returned from allocate of the
\* same class with the same block.
DoubleReturn ==
    /\ initialized
    /\ heap.size = 8192
    /\ ctx[1].pc = "done" /\ ctx[2].pc = "done"
    /\ ctx[1].ptr # NULL
    /\ ctx[1].ptr = ctx[2].ptr
    /\ categorize(ctx[1].size) = categorize(ctx[2].size)
    /\ BagCardinality(held) = 2

\* C18: initialize gives every arena i the capacity N_i * width_i, with
\* N_i = (length / 8) / width_i, a multiple of its block_size, and the
\* free list it builds holds the N_i whole blocks and nothing else.
CapacityWholeBlocks ==
    (initialized /\ heap.size >= 8192) =>
        LET image == HeapImage IN
        \A i \in Slots :
            /\ arenas[i].capacity
                  = BlockCount(heap.size, i) * SlotWidth(i)
            /\ arenas[i].capacity % arenas[i].block_size = 0
            /\ InitialFreeSet(image, i) = Blocks(arenas[i])
            /\ Cardinality(InitialFreeSet(image, i))
                  = BlockCount(heap.size, i)

\* C19: Arena::new builds the list block 0 -> block 1 -> ... -> block N-1
\* -> null with N = capacity / block_size (empty when N = 0): after n
\* allocations from the fresh arena the free blocks are blocks n..N-1, the
\* next allocation returns block n, or null once n = N, and the latest
\* one returned block n-1.
ArenaNewAscending ==
    arenas[0].some =>
        LET a == arenas[0]
            N == a.capacity \div a.block_size
            n == BagCardinality(held)
            Block(k) == a.start + k * a.block_size
        IN /\ a.free_list = IF n < N THEN Block(n) ELSE NULL
           /\ Walk(Memory, a.free_list) = {Block(k) : k \in n..(N - 1)}
           /\ (last.op = "allocate" /\ last.ptr # NULL) =>
                 last.ptr = Block(n - 1)
           /\ (last.op = "allocate" /\ last.ptr = NULL) => n = N

\* The width of the block a held pointer addresses: the block_size of the
\* arena that served it.
HeldWidth(h) == arenas[Dispatch(h.size).index].block_size

\* C20: the blocks callers hold at the same time do not overlap: no block
\* is held twice, the ranges [ptr, ptr + width) of two held blocks are
\* disjoint, and so are the eight arenas.
LiveBlocksDisjoint ==
    initialized =>
        /\ \A h \in HeldSet : CopiesIn(h, held) = 1
        /\ \A g \in HeldSet, h \in HeldSet :
              g # h => (\/ g.ptr + HeldWidth(g) <= h.ptr
                        \/ h.ptr + HeldWidth(h) <= g.ptr)
        /\ \A i \in Slots, j \in Slots :
              i < j => (\/ arenas[i].start + arenas[i].capacity
                              <= arenas[j].start
                        \/ arenas[j].start + arenas[j].capacity
                              <= arenas[i].start)

\* C21: a non-null pointer allocate(layout) returned addresses a block of
\* an arena whose block_size is at least layout.size: so for every block
\* a caller holds and for the latest allocate that returned one.
BlockFitsRequest ==
    initialized =>
        /\ \A h \in HeldSet :
              /\ Dispatch(h.size).kind = "slot"
              /\ HeldWidth(h) >= h.size
        /\ (last.op = "allocate" /\ last.ptr # NULL) =>
              /\ Dispatch(last.size).kind = "slot"
              /\ arenas[Dispatch(last.size).index].block_size >= last.size

\* C21 witness: a Large request of 64 bytes was served, by slot 7, whose
\* blocks are 1024 bytes wide, and a Small one of 16 bytes is held too.
BlockFitsWitness ==
    /\ initialized
    /\ last.op = "allocate" /\ last.size = 64 /\ last.ptr # NULL
    /\ arenas[Dispatch(last.size).index].block_size = 1024
    /\ \E h \in HeldSet : h.size = 16 /\ HeldWidth(h) = 16

\* The FAT entry of a cluster as the device holds it.
Entry(cluster) == IF cluster \in Clusters THEN fat.table[cluster] ELSE 0

\* C22: the first next() visits start_cluster; each further next() visits
\* the cluster stored in the FAT entry of the current cluster, with the
\* old current cluster recorded as previous_cluster; and when that entry
\* is 0x0FFFFFFF, next() returns None, from then on.  Stated for the
\* calls that follow a successful read of the entry.
FatWalk ==
    [][FatNext =>
          IF fat.ret = "-"
          THEN /\ fat'.ret = "some"
               /\ fat'.current_cluster = fat.start_cluster
          ELSE fat.read_ok =>
                 IF Entry(fat.current_cluster) = EndOfChain
                 THEN /\ fat'.ret = "none"
                      /\ fat'.current_cluster = fat.current_cluster
                 ELSE /\ fat'.ret = "some"
                      /\ fat'.current_cluster = Entry(fat.current_cluster)
                      /\ fat'.previous_cluster = fat.current_cluster]_vars

====
